---------------------------- MODULE Spec2Model ----------------------------
(***************************************************************************)
(* Model of the Gringo translation-practice backend (src/src/server.js):   *)
(* the two POST handlers, callGemini, and the response-normalisation       *)
(* pipeline (aggregateGeminiText, parseGeminiJsonPayload,                  *)
(* normalizePhraseList, score shaping).                                    *)
(*                                                                         *)
(* Text is a sequence of one-character strings.  JavaScript values are     *)
(* tagged records:                                                         *)
(*   [t |-> "undefined"]  [t |-> "null"]  [t |-> "bool", b |-> BOOLEAN]     *)
(*   [t |-> "num", e |-> Nat, m |-> Int]   the decimal m / 10^e            *)
(*   [t |-> "nan"]  [t |-> "inf", neg |-> BOOLEAN]                          *)
(*   [t |-> "str", s |-> text]  [t |-> "arr", a |-> sequence of values]     *)
(*   [t |-> "obj", f |-> function from key text to value]                  *)
(* Decimals are exact; IEEE-754 rounding of doubles is not modelled.       *)
(***************************************************************************)
EXTENDS Integers, Sequences, FiniteSets, TLC

VARIABLES
    apiKey,     \* GEMINI_API_KEY is set (fixed at process start)
    req,        \* per request: endpoint, body and position of its handler
    calls,      \* per request: number of fetch() calls issued upstream
    resp,       \* per request: the HTTP response sent, or NoResp
    norm        \* one application of the Payload Normalizer: input and outputs

vars == <<apiKey, req, calls, resp, norm>>

---------------------------------------------------------------------------
(* JavaScript values *)

Undef == [t |-> "undefined"]
Null == [t |-> "null"]
NaN == [t |-> "nan"]
Bool(b) == [t |-> "bool", b |-> b]
Inf(neg) == [t |-> "inf", neg |-> neg]
Str(s) == [t |-> "str", s |-> s]
Arr(a) == [t |-> "arr", a |-> a]
Obj(f) == [t |-> "obj", f |-> f]
EmptyObj == Obj([k \in {} |-> Undef])

RECURSIVE Pow10(_)
Pow10(e) == IF e = 0 THEN 1 ELSE 10 * Pow10(e - 1)

\* the decimal m / 10^e, kept in lowest terms of the scale
RECURSIVE Num(_, _)
Num(m, e) ==
    IF e > 0 /\ m % 10 = 0 THEN Num(m \div 10, e - 1)
    ELSE [t |-> "num", e |-> e, m |-> m]

IsNullish(v) == v.t \in {"undefined", "null"}

\* a ?? b
Coalesce(a, b) == IF IsNullish(a) THEN b ELSE a

---------------------------------------------------------------------------
(* Text *)

Digits == <<"0", "1", "2", "3", "4", "5", "6", "7", "8", "9">>
DigitSet == {Digits[i] : i \in 1..10}
DigitVal(c) == (CHOOSE i \in 1..10 : Digits[i] = c) - 1

\* white space of String.prototype.trim and of the regular expression \s
JsWs == {" ", "\n", "\r", "\t"}
\* white space of the JSON grammar
JsonWs == {" ", "\n", "\r", "\t"}

Upper == <<"A", "B", "H", "I", "J", "S", "O", "N">>
Lower == <<"a", "b", "h", "i", "j", "s", "o", "n">>

\* String.prototype.toLowerCase, one character
LowerChar(c) ==
    IF \E i \in 1..Len(Upper) : Upper[i] = c
    THEN Lower[CHOOSE i \in 1..Len(Upper) : Upper[i] = c]
    ELSE c

toLowerCase(s) == [i \in 1..Len(s) |-> LowerChar(s[i])]

Drop(s, n) == SubSeq(s, n + 1, Len(s))

RECURSIVE SkipWs(_, _, _)
SkipWs(s, i, ws) ==
    IF i <= Len(s) /\ s[i] \in ws THEN SkipWs(s, i + 1, ws) ELSE i

RECURSIVE SkipWsBack(_, _, _)
SkipWsBack(s, j, ws) ==
    IF j >= 1 /\ s[j] \in ws THEN SkipWsBack(s, j - 1, ws) ELSE j

\* String.prototype.trim
trim(s) == SubSeq(s, SkipWs(s, 1, JsWs), SkipWsBack(s, Len(s), JsWs))

startsWith(s, p) == Len(s) >= Len(p) /\ SubSeq(s, 1, Len(p)) = p
endsWith(s, p) ==
    Len(s) >= Len(p) /\ SubSeq(s, Len(s) - Len(p) + 1, Len(s)) = p

RECURSIVE Concat(_)
Concat(ss) == IF ss = <<>> THEN <<>> ELSE Head(ss) \o Concat(Tail(ss))

\* the grave accent (U+0060) cannot be written in a TLA+ string: the atom
\* "BACKTICK" stands for that one character
Backtick == "BACKTICK"
Fence == <<Backtick, Backtick, Backtick>>
JsonTag == <<"j", "s", "o", "n">>

---------------------------------------------------------------------------
(* JSON.parse, for the JSON grammar without backslash escapes and without  *)
(* exponents (no text of the model holds a backslash, or a digit followed  *)
(* by e or E).  A parser returns [ok, v, i]: i is the index after the      *)
(* value.                                                                  *)

ParseFail == [v |-> Undef, i |-> 0, ok |-> FALSE]
ParseOk(v, i) == [v |-> v, i |-> i, ok |-> TRUE]

At(s, i) == IF 1 <= i /\ i <= Len(s) THEN s[i] ELSE "EOF"

\* index of the closing quote of a string literal whose body starts at i,
\* 0 when a control character or the end of input comes first
RECURSIVE StringEnd(_, _)
StringEnd(s, i) ==
    IF i > Len(s) \/ s[i] \in {"\n", "\r", "\t"} THEN 0
    ELSE IF s[i] = "\"" THEN i
    ELSE StringEnd(s, i + 1)

\* the string literal s[i..j] with its closing quote at j
StringUpTo(s, i, j) ==
    IF j = 0 THEN ParseFail ELSE ParseOk(Str(SubSeq(s, i + 1, j - 1)), j + 1)

ParseString(s, i) == StringUpTo(s, i, StringEnd(s, i + 1))

\* index after the run of digits starting at i
RECURSIVE DigitsEnd(_, _)
DigitsEnd(s, i) == IF At(s, i) \in DigitSet THEN DigitsEnd(s, i + 1) ELSE i

\* value of the digits s[i..j-1]
RECURSIVE DigitsVal(_, _, _)
DigitsVal(s, i, j) ==
    IF i >= j THEN 0 ELSE DigitsVal(s, i, j - 1) * 10 + DigitVal(s[j - 1])

\* the number whose integer digits are s[a..b-1] and whose fraction digits,
\* if s[b] is ".", are s[b+1..c-1]
NumberAt(s, neg, a, b, c) ==
    IF b = a \/ (s[a] = "0" /\ b > a + 1) \/ (c > b /\ c = b + 1)
    THEN ParseFail
    ELSE IF c = b THEN ParseOk(Num((IF neg THEN -1 ELSE 1) * DigitsVal(s, a, b), 0), c)
    ELSE ParseOk(Num((IF neg THEN -1 ELSE 1)
                       * (DigitsVal(s, a, b) * Pow10(c - b - 1) + DigitsVal(s, b + 1, c)),
                     c - b - 1), c)

\* end of the fraction that may follow the integer digits ending before b
FractionEnd(s, b) == IF At(s, b) = "." THEN DigitsEnd(s, b + 1) ELSE b

UnsignedNumber(s, neg, a, b) == NumberAt(s, neg, a, b, FractionEnd(s, b))

\* number = [ "-" ] int [ "." digits ], int = "0" | digit1-9 digits
ParseNumber(s, i) ==
    IF At(s, i) = "-" THEN UnsignedNumber(s, TRUE, i + 1, DigitsEnd(s, i + 1))
    ELSE UnsignedNumber(s, FALSE, i, DigitsEnd(s, i))

ParseLiteral(s, i, word, v) ==
    IF i + Len(word) - 1 <= Len(s) /\ SubSeq(s, i, i + Len(word) - 1) = word
    THEN ParseOk(v, i + Len(word))
    ELSE ParseFail

RECURSIVE ParseValue(_, _)
RECURSIVE ParseElements(_, _, _)
RECURSIVE ParseMembers(_, _, _)

RECURSIVE AfterElement(_, _, _, _)
RECURSIVE AfterKey(_, _, _, _)
RECURSIVE AfterMember(_, _, _, _, _)

\* elements of an array after "[" or ",": i is at the next element
ParseElements(s, i, acc) ==
    AfterElement(s, ParseValue(s, SkipWs(s, i, JsonWs)), acc, 0)

\* r is the element parsed; j the index of the token after it (0: not yet
\* computed)
AfterElement(s, r, acc, j) ==
    IF ~r.ok THEN ParseFail
    ELSE IF j = 0 THEN AfterElement(s, r, acc, SkipWs(s, r.i, JsonWs))
    ELSE IF At(s, j) = "," THEN ParseElements(s, j + 1, Append(acc, r.v))
    ELSE IF At(s, j) = "]" THEN ParseOk(Arr(Append(acc, r.v)), j + 1)
    ELSE ParseFail

\* members of an object after "{" or ",": i is at the next key; a repeated
\* key keeps its last value
ParseMembers(s, i, acc) ==
    IF At(s, SkipWs(s, i, JsonWs)) = "\""
    THEN AfterKey(s, ParseString(s, SkipWs(s, i, JsonWs)), acc, 0)
    ELSE ParseFail

\* key is the member's name parsed; c the index of the token after it
AfterKey(s, key, acc, c) ==
    IF ~key.ok THEN ParseFail
    ELSE IF c = 0 THEN AfterKey(s, key, acc, SkipWs(s, key.i, JsonWs))
    ELSE IF At(s, c) = ":"
    THEN AfterMember(s, key.v.s, ParseValue(s, SkipWs(s, c + 1, JsonWs)), acc, 0)
    ELSE ParseFail

\* r is the member's value parsed; j the index of the token after it
AfterMember(s, k, r, acc, j) ==
    IF ~r.ok THEN ParseFail
    ELSE IF j = 0 THEN AfterMember(s, k, r, acc, SkipWs(s, r.i, JsonWs))
    ELSE IF At(s, j) = "," THEN ParseMembers(s, j + 1, (k :> r.v) @@ acc)
    ELSE IF At(s, j) = "}" THEN ParseOk(Obj((k :> r.v) @@ acc), j + 1)
    ELSE ParseFail

\* the object or array whose first token after the opener is at j
ParseObjectFrom(s, j) ==
    IF At(s, j) = "}" THEN ParseOk(EmptyObj, j + 1)
    ELSE ParseMembers(s, j, EmptyObj.f)
ParseArrayFrom(s, j) ==
    IF At(s, j) = "]" THEN ParseOk(Arr(<<>>), j + 1)
    ELSE ParseElements(s, j, <<>>)

ParseValue(s, i) ==
    CASE At(s, i) = "{" -> ParseObjectFrom(s, SkipWs(s, i + 1, JsonWs))
      [] At(s, i) = "[" -> ParseArrayFrom(s, SkipWs(s, i + 1, JsonWs))
      [] At(s, i) = "\"" -> ParseString(s, i)
      [] At(s, i) = "-" \/ At(s, i) \in DigitSet -> ParseNumber(s, i)
      [] At(s, i) = "t" -> ParseLiteral(s, i, <<"t", "r", "u", "e">>, Bool(TRUE))
      [] At(s, i) = "f" -> ParseLiteral(s, i, <<"f", "a", "l", "s", "e">>, Bool(FALSE))
      [] At(s, i) = "n" -> ParseLiteral(s, i, <<"n", "u", "l", "l">>, Null)
      [] OTHER -> ParseFail

\* r is the value parsed at the start of s: only white space may follow it
WholeInput(s, r) ==
    IF r.ok /\ SkipWs(s, r.i, JsonWs) > Len(s)
    THEN [v |-> r.v, ok |-> TRUE]
    ELSE [v |-> Undef, ok |-> FALSE]

\* JSON.parse(s): [ok |-> TRUE, v |-> value], or ok = FALSE for a SyntaxError
JSONparse(s) == WholeInput(s, ParseValue(s, SkipWs(s, 1, JsonWs)))

---------------------------------------------------------------------------
(* Payload Normalizer *)

\* an opening-fence pattern without the optional tag
StripOpeningFence_NoTag(s) == Drop(s, SkipWs(s, 4, JsWs) - 1)

\* sanitized.replace(/^BACKTICK{3}(?:json)?\s*/i, ''), for s that starts
\* with the fence
StripOpeningFence(s) ==
    LET a == IF Len(s) >= 7 /\ toLowerCase(SubSeq(s, 4, 7)) = JsonTag
             THEN 8 ELSE 4
    IN  Drop(s, SkipWs(s, a, JsWs) - 1)

\* sanitized.replace(/BACKTICK{3}$/i, '')
StripClosingFence(s) ==
    IF endsWith(s, Fence) THEN SubSeq(s, 1, Len(s) - 3) ELSE s

\* lines 40-42, for the trimmed text t
StripFences(t) ==
    IF startsWith(t, Fence)
    THEN trim(StripClosingFence(StripOpeningFence(t)))
    ELSE t

\* the text the parser is applied to (lines 34-42)
Sanitize(text) == StripFences(trim(text))

\* positions of the closers of kind cl after position p
ClosersAfter(s, p, cl) == {q \in p + 1..Len(s) : s[q] = cl}

Closer(c) == IF c = "{" THEN "}" ELSE "]"

\* start positions at which /\{[\s\S]*\}|\[[\s\S]*\]/ matches
MatchStarts(s) ==
    {p \in 1..Len(s) : s[p] \in {"{", "["} /\ ClosersAfter(s, p, Closer(s[p])) # {}}

Min(S) == CHOOSE x \in S : \A y \in S : x <= y
Max(S) == CHOOSE x \in S : \A y \in S : x >= y

\* sanitized.match(/\{[\s\S]*\}|\[[\s\S]*\]/): the leftmost match, greedy
\* to the last closer of its kind; [found |-> FALSE] for null
MatchFrom(s, p) == SubSeq(s, p, Max(ClosersAfter(s, p, Closer(s[p]))))

\* the pattern /\{[\s\S]*\}/, which finds no bracket-delimited block
JsonMatch_BracesOnly(s) ==
    IF {p \in MatchStarts(s) : s[p] = "{"} = {} THEN [m |-> <<>>, found |-> FALSE]
    ELSE [m |-> MatchFrom(s, Min({p \in MatchStarts(s) : s[p] = "{"})), found |-> TRUE]

JsonMatch(s) ==
    IF MatchStarts(s) = {} THEN [m |-> <<>>, found |-> FALSE]
    ELSE [m |-> MatchFrom(s, Min(MatchStarts(s))), found |-> TRUE]

\* the value of a parse result, null for a SyntaxError (lines 49-57)
ValueOrNull(parsed) == IF parsed.ok THEN parsed.v ELSE Null

\* the catch block (lines 47-57) for the match found in the sanitized text
ParseMatch(jsonMatch) ==
    IF jsonMatch.found THEN ValueOrNull(JSONparse(jsonMatch.m)) ELSE Null

\* lines 44-58: whole is JSON.parse(sanitized)
ParseOrMatch(sanitized, whole) ==
    IF whole.ok THEN whole.v ELSE ParseMatch(JsonMatch(sanitized))

ParseSanitized(sanitized) == ParseOrMatch(sanitized, JSONparse(sanitized))

parseGeminiJsonPayload(text) ==
    IF text = <<>> THEN Null
    ELSE IF trim(text) = <<>> THEN Null
    ELSE ParseSanitized(Sanitize(text))

---------------------------------------------------------------------------
(* JavaScript coercions and property access *)

Infinity == <<"I", "n", "f", "i", "n", "i", "t", "y">>

\* StringToNumber for the decimal fragment: white space trimmed, "" is 0,
\* [+-]Infinity, [+-](digits[.digits] | .digits); anything else is NaN
\* the decimal of t whose integer digits are t[a..b-1] and whose fraction
\* digits, if t[b] is ".", are t[b+1..c-1]
DecimalAt(t, neg, a, b, c) ==
    IF c <= Len(t) \/ (b - a) + (IF c > b THEN c - b - 1 ELSE 0) = 0 THEN NaN
    ELSE IF c = b THEN Num((IF neg THEN -1 ELSE 1) * DigitsVal(t, a, b), 0)
    ELSE Num((IF neg THEN -1 ELSE 1)
               * (DigitsVal(t, a, b) * Pow10(c - b - 1) + DigitsVal(t, b + 1, c)),
             c - b - 1)

UnsignedDecimal(t, neg, a, b) ==
    IF Drop(t, a - 1) = Infinity THEN Inf(neg)
    ELSE DecimalAt(t, neg, a, b, FractionEnd(t, b))

TrimmedToNumber(t) ==
    IF t = <<>> THEN Num(0, 0)
    ELSE IF At(t, 1) \in {"+", "-"}
    THEN UnsignedDecimal(t, At(t, 1) = "-", 2, DigitsEnd(t, 2))
    ELSE UnsignedDecimal(t, FALSE, 1, DigitsEnd(t, 1))

StringToNumber(s) == TrimmedToNumber(trim(s))

\* Number(v)
RECURSIVE ToNumber(_)
ToNumber(v) ==
    CASE v.t = "undefined" -> NaN
      [] v.t = "null" -> Num(0, 0)
      [] v.t = "bool" -> Num(IF v.b THEN 1 ELSE 0, 0)
      [] v.t \in {"num", "nan", "inf"} -> v
      [] v.t = "str" -> StringToNumber(v.s)
      [] v.t = "arr" ->
            \* Number(String(array)): the elements joined by ","
            IF Len(v.a) = 0 THEN Num(0, 0)
            ELSE IF Len(v.a) > 1 THEN NaN
            ELSE IF IsNullish(v.a[1]) THEN Num(0, 0)
            ELSE IF v.a[1].t = "bool" THEN NaN
            ELSE ToNumber(v.a[1])
      [] OTHER -> NaN   \* "[object Object]"

\* Number.isFinite(v)
IsFinite(v) == v.t = "num"

NumLess(x, y) == x.m * Pow10(y.e) < y.m * Pow10(x.e)
MathMin(x, y) == IF NumLess(y, x) THEN y ELSE x
MathMax(x, y) == IF NumLess(x, y) THEN y ELSE x

\* floor(a / b) for b > 0
FloorDiv(a, b) == IF a >= 0 THEN a \div b ELSE -((-a + b - 1) \div b)

\* a rounding that drops the fraction: floor(x)
MathRound_Floor(x) == Num(FloorDiv(x.m, Pow10(x.e)), 0)

\* Math.round(x) = floor(x + 1/2), for a finite x
MathRound(x) == Num(FloorDiv(2 * x.m + Pow10(x.e), 2 * Pow10(x.e)), 0)

\* truthiness of a value (the operand of !, || and filter(Boolean))
Truthy(v) ==
    CASE v.t \in {"undefined", "null", "nan"} -> FALSE
      [] v.t = "bool" -> v.b
      [] v.t = "num" -> v.m # 0
      [] v.t = "str" -> v.s # <<>>
      [] OTHER -> TRUE

\* a || b
OrElse(a, b) == IF Truthy(a) THEN a ELSE b

\* v.key for a v that is not nullish, over the keys the program reads
\* (none of them a property of a string, a number, a boolean or an array)
Get(v, key) ==
    IF v.t = "obj" /\ key \in DOMAIN v.f THEN v.f[key] ELSE Undef

\* v?.key
OptGet(v, key) == IF IsNullish(v) THEN Undef ELSE Get(v, key)

\* v?.[0]
OptIndex0(v) ==
    IF v.t = "arr" /\ Len(v.a) >= 1 THEN v.a[1]
    ELSE IF v.t = "str" /\ Len(v.s) >= 1 THEN Str(<<v.s[1]>>)
    ELSE IF v.t = "obj" /\ <<"0">> \in DOMAIN v.f THEN v.f[<<"0">>]
    ELSE Undef

RECURSIVE NatDigits(_)
NatDigits(n) ==
    IF n < 10 THEN <<Digits[n + 1]>>
    ELSE Append(NatDigits(n \div 10), Digits[(n % 10) + 1])

RECURSIVE Zeros(_)
Zeros(n) == IF n <= 0 THEN <<>> ELSE <<"0">> \o Zeros(n - 1)

\* String(x) for a decimal x
\* the digits of the fraction fp / 10^e
FractionString(fp, e) ==
    IF e = 0 THEN <<>>
    ELSE <<".">> \o Zeros(e - Len(NatDigits(fp))) \o NatDigits(fp)

MagnitudeString(mag, e) ==
    NatDigits(mag \div Pow10(e)) \o FractionString(mag % Pow10(e), e)

NumToString(x) ==
    IF x.m < 0 THEN <<"-">> \o MagnitudeString(-x.m, x.e)
    ELSE MagnitudeString(x.m, x.e)

ObjectObject ==
    <<"[", "o", "b", "j", "e", "c", "t", " ", "O", "b", "j", "e", "c", "t", "]">>

\* String(v), as Array.prototype.join applies it to an element
RECURSIVE ToStr(_)
RECURSIVE JoinComma(_)
ToStr(v) ==
    CASE v.t = "str" -> v.s
      [] v.t = "num" -> NumToString(v)
      [] v.t = "bool" ->
            IF v.b THEN <<"t", "r", "u", "e">> ELSE <<"f", "a", "l", "s", "e">>
      [] v.t = "arr" -> JoinComma(v.a)
      [] v.t = "obj" -> ObjectObject
      [] OTHER -> <<>>
JoinComma(a) ==
    IF a = <<>> THEN <<>>
    ELSE IF Len(a) = 1 THEN ToStr(a[1])
    ELSE ToStr(a[1]) \o <<",">> \o JoinComma(Tail(a))

---------------------------------------------------------------------------
(* Response Extractor *)

K_candidates == <<"c", "a", "n", "d", "i", "d", "a", "t", "e", "s">>
K_content == <<"c", "o", "n", "t", "e", "n", "t">>
K_parts == <<"p", "a", "r", "t", "s">>
K_text == <<"t", "e", "x", "t">>
K_score == <<"s", "c", "o", "r", "e">>
K_feedback == <<"f", "e", "e", "d", "b", "a", "c", "k">>
K_correctTranslation ==
    <<"c", "o", "r", "r", "e", "c", "t", "T", "r", "a", "n", "s", "l", "a", "t", "i", "o", "n">>
K_phrases == <<"p", "h", "r", "a", "s", "e", "s">>
K_count == <<"c", "o", "u", "n", "t">>
K_prompt == <<"p", "r", "o", "m", "p", "t">>
K_originalPhrase ==
    <<"o", "r", "i", "g", "i", "n", "a", "l", "P", "h", "r", "a", "s", "e">>

\* (part) => part.text ?? ''  throws a TypeError when part is null or
\* undefined: the access is not optional
PartThrows(part) == IsNullish(part)
PartText(part) == Coalesce(Get(part, K_text), Str(<<>>))

\* aggregateGeminiText(data): [threw |-> FALSE, text |-> the string], or
\* threw = TRUE for the TypeError of part.text on a nullish part and of
\* parts.map on a value that is not an array
\* parts?.map(...).join('').trim() ?? ''
JoinParts(parts) ==
    IF IsNullish(parts) THEN [text |-> <<>>, threw |-> FALSE]
    ELSE IF parts.t # "arr" THEN [text |-> <<>>, threw |-> TRUE]
    ELSE IF \E i \in 1..Len(parts.a) : PartThrows(parts.a[i])
    THEN [text |-> <<>>, threw |-> TRUE]
    ELSE [text |-> trim(Concat([i \in 1..Len(parts.a) |-> ToStr(PartText(parts.a[i]))])),
          threw |-> FALSE]

aggregateGeminiText(data) ==
    JoinParts(OptGet(OptGet(OptIndex0(OptGet(data, K_candidates)), K_content), K_parts))

---------------------------------------------------------------------------
(* Evaluation shaping and phrase list shaping *)

NoResponseReceived ==
    <<"N", "e", "n", "h", "u", "m", "a", " ", "r", "e", "s", "p", "o", "s",
      "t", "a", " ", "r", "e", "c", "e", "b", "i", "d", "a", ".">>

TranslationNotProvided ==
    <<"T", "r", "a", "d", "u", "ç", "ã", "o", " ", "n", "ã", "o", " ", "i",
      "n", "f", "o", "r", "m", "a", "d", "a", ".">>


\* Math.max(0, Math.min(10, Math.round(scoreValue)))
ClampScore(scoreValue) ==
    MathMax(Num(0, 0), MathMin(Num(10, 0), MathRound(scoreValue)))

\* lines 175-177
ScoreOrNull(scoreValue) ==
    IF IsFinite(scoreValue) THEN ClampScore(scoreValue) ELSE Null

\* lines 174-177: the score of the response
normalizedScore(parsedResult) == ScoreOrNull(ToNumber(OptGet(parsedResult, K_score)))

\* line 178
feedbackOf(parsedResult, aggregatedText) ==
    OrElse(OrElse(OptGet(parsedResult, K_feedback), Str(aggregatedText)),
           Str(NoResponseReceived))

\* line 179
correctTranslationOf(parsedResult) ==
    OrElse(OptGet(parsedResult, K_correctTranslation), Str(TranslationNotProvided))

\* the hard cap of normalizePhraseList
PhraseCap == 200

\* lines 62-66
ArrayOrEmpty(v) == IF v.t = "arr" THEN v.a ELSE <<>>

rawListOf(value) ==
    IF value.t = "arr" THEN value.a ELSE ArrayOrEmpty(OptGet(value, K_phrases))

\* the for loop of normalizePhraseList from item i on
RECURSIVE PhraseLoop(_, _, _, _)
RECURSIVE PhraseItem(_, _, _, _, _)
PhraseLoop(rawList, i, seen, normalized) ==
    IF i > Len(rawList) THEN normalized
    ELSE IF rawList[i].t # "str"
    THEN PhraseLoop(rawList, i + 1, seen, normalized)
    ELSE PhraseItem(rawList, i, seen, normalized, trim(rawList[i].s))

\* lines 77-91 of the loop body, for the trimmed item i
PhraseItem(rawList, i, seen, normalized, trimmed) ==
    IF trimmed = <<>> THEN PhraseLoop(rawList, i + 1, seen, normalized)
    ELSE IF toLowerCase(trimmed) \in seen
    THEN PhraseLoop(rawList, i + 1, seen, normalized)
    ELSE IF Len(normalized) + 1 >= PhraseCap THEN Append(normalized, trimmed)
    ELSE PhraseLoop(rawList, i + 1, seen \cup {toLowerCase(trimmed)},
                    Append(normalized, trimmed))

\* normalizePhraseList(value): a sequence of texts
normalizePhraseList(value) == PhraseLoop(rawListOf(value), 1, {}, <<>>)

\* aggregatedText.split(/\r?\n/)
RECURSIVE SplitLines(_, _)
RECURSIVE SplitAt(_, _, _)
SplitLines(s, from) ==
    IF \A i \in from..Len(s) : s[i] # "\n" THEN <<SubSeq(s, from, Len(s))>>
    ELSE SplitAt(s, from, Min({i \in from..Len(s) : s[i] = "\n"}))

\* the line from `from` to the line feed at i, and the lines after it
SplitAt(s, from, i) ==
    <<SubSeq(s, from, IF i - 1 >= from /\ s[i - 1] = "\r" THEN i - 2 ELSE i - 1)>>
        \o SplitLines(s, i + 1)

\* line.replace(/^[-*\d.\s]+/, '')
RECURSIVE StripMarkers(_)
StripMarkers(line) ==
    IF line # <<>> /\ line[1] \in ({"-", "*", "."} \cup DigitSet \cup JsWs)
    THEN StripMarkers(Tail(line))
    ELSE line

\* lines 228-231: the candidate lines of the fallback path
CleanLines(lines) ==
    Arr(SelectSeq([i \in 1..Len(lines) |-> Str(trim(StripMarkers(lines[i])))], Truthy))

fallbackLines(aggregatedText) == CleanLines(SplitLines(aggregatedText, 1))

\* Number(req.body?.count ?? 100), rounded and clamped (lines 200-203)
ClampCount(requestedCount) ==
    IF IsFinite(requestedCount)
    THEN MathMax(Num(1, 0), MathMin(Num(200, 0), MathRound(requestedCount))).m
    ELSE 100

targetCountOf(body) ==
    ClampCount(ToNumber(Coalesce(OptGet(body, K_count), Num(100, 0))))

\* lines 224-241: [fallback |-> the fallback path ran, phrases |-> the list
\* before the empty check, cut to targetCount]
\* lines 239-241
CutTo(phrases, targetCount) ==
    IF Len(phrases) > targetCount THEN SubSeq(phrases, 1, targetCount) ELSE phrases

\* a handler that falls back whenever the primary path is short of the
\* target count
PrimaryOrFallback_WhenShort(primary, aggregatedText, targetCount) ==
    IF Len(primary) < targetCount /\ aggregatedText # <<>>
    THEN [phrases |-> CutTo(normalizePhraseList(fallbackLines(aggregatedText)),
                            targetCount),
          fallback |-> TRUE]
    ELSE [phrases |-> CutTo(primary, targetCount), fallback |-> FALSE]

\* lines 227-241, for the phrases of the primary path
PrimaryOrFallback(primary, aggregatedText, targetCount) ==
    IF primary = <<>> /\ aggregatedText # <<>>
    THEN [phrases |-> CutTo(normalizePhraseList(fallbackLines(aggregatedText)),
                            targetCount),
          fallback |-> TRUE]
    ELSE [phrases |-> CutTo(primary, targetCount), fallback |-> FALSE]

shapePhrases(aggregatedText, targetCount) ==
    PrimaryOrFallback(normalizePhraseList(parseGeminiJsonPayload(aggregatedText)),
                      aggregatedText, targetCount)

---------------------------------------------------------------------------
(* callGemini and the two handlers *)

MsgPromptRequired == "O campo \"prompt\" é obrigatório e deve ser uma string."
MsgOriginalPhraseRequired ==
    "O campo \"originalPhrase\" é obrigatório e deve ser uma string."
MsgKeyNotConfigured == "GEMINI_API_KEY não configurada."
MsgGeminiFailure == "Falha ao se comunicar com a API Gemini."
MsgNoValidPhrases == "Não foi possível obter frases válidas da API Gemini."
\* messages the runtime gives its own errors
MsgTypeError == "TypeError"
MsgSyntaxError == "SyntaxError"
MsgFetchFailed == "fetch failed"

\* an upstream HTTP reply: its status, the body as response.text() gives it,
\* whether response.json() parses it, and the value it parses to
HttpReply(status, text, json, data) ==
    [text |-> text, data |-> data, status |-> status, json |-> json]
OkReply(data) == HttpReply(200, <<>>, TRUE, data)
NoReply == HttpReply(0, <<>>, FALSE, Undef)

\* response.ok
ResponseOk(reply) == 200 <= reply.status /\ reply.status <= 299

\* a thrown Error: status = 0 stands for no status property
Thrown(message, status, isGeminiError, details) ==
    [status |-> status, message |-> message, isGeminiError |-> isGeminiError,
     details |-> details]

\* a callGemini that fetches without looking at the credential
KeyError_Unchecked(key) == Thrown("", 0, FALSE, <<>>)

\* callGemini up to the fetch (lines 98-102): the error thrown, if any
KeyError(key) ==
    IF ~key THEN Thrown(MsgKeyNotConfigured, 500, FALSE, <<>>)
    ELSE Thrown("", 0, FALSE, <<>>)

\* callGemini after the fetch resolved (lines 112-124):
\* [threw, error, data, aggregatedText]
Throw(error) ==
    [threw |-> TRUE, data |-> Undef, aggregatedText |-> <<>>, error |-> error]

\* lines 121-124, agg being aggregateGeminiText(data)
Aggregated(data, agg) ==
    IF agg.threw THEN Throw(Thrown(MsgTypeError, 0, FALSE, <<>>))
    ELSE [threw |-> FALSE, data |-> data, aggregatedText |-> agg.text,
          error |-> Thrown("", 0, FALSE, <<>>)]

callGeminiResult(reply) ==
    IF ~ResponseOk(reply)
    THEN Throw(Thrown(MsgGeminiFailure, reply.status, TRUE, reply.text))
    ELSE IF ~reply.json THEN Throw(Thrown(MsgSyntaxError, 0, FALSE, <<>>))
    ELSE Aggregated(reply.data, aggregateGeminiText(reply.data))

\* HTTP responses of the server
NoResp == [status |-> 0]
ErrorResp(status, message) == [status |-> status, error |-> message]
UpstreamErrorResp(message, details) ==
    [status |-> 502, details |-> details, error |-> message]
EvaluateResp(score, feedback, correctTranslation, raw) ==
    [status |-> 200, score |-> score, feedback |-> feedback,
     correctTranslation |-> correctTranslation, raw |-> raw]
PhrasesResp(phrases, raw) == [phrases |-> phrases, status |-> 200, raw |-> raw]

\* a catch block that passes the upstream status through
catchResponse_PassStatus(error) ==
    IF error.isGeminiError
    THEN [status |-> error.status, details |-> error.details, error |-> error.message]
    ELSE ErrorResp(IF error.status # 0 THEN error.status ELSE 500, error.message)

\* the catch block of either handler (lines 187-196, 244-253)
catchResponse(error) ==
    IF error.isGeminiError THEN UpstreamErrorResp(error.message, error.details)
    ELSE ErrorResp(IF error.status # 0 THEN error.status ELSE 500, error.message)

\* !x || typeof x !== 'string'
NotAString(x) == ~Truthy(x) \/ x.t # "str"

\* a handler that validates the prompt only
evaluateStart_PromptOnly(body, key) ==
    IF NotAString(Get(body, K_prompt))
    THEN [resp |-> ErrorResp(400, MsgPromptRequired), await |-> FALSE]
    ELSE IF KeyError(key).status # 0
    THEN [resp |-> catchResponse(KeyError(key)), await |-> FALSE]
    ELSE [resp |-> NoResp, await |-> TRUE]

\* POST /api/evaluate up to its first await (lines 133-153):
\* [await |-> TRUE] when the fetch was issued, else the response sent
evaluateStart(body, key) ==
    IF NotAString(Get(body, K_prompt))
    THEN [resp |-> ErrorResp(400, MsgPromptRequired), await |-> FALSE]
    ELSE IF NotAString(Get(body, K_originalPhrase))
    THEN [resp |-> ErrorResp(400, MsgOriginalPhraseRequired), await |-> FALSE]
    ELSE IF KeyError(key).status # 0
    THEN [resp |-> catchResponse(KeyError(key)), await |-> FALSE]
    ELSE [resp |-> NoResp, await |-> TRUE]

\* POST /api/phrases up to its first await (lines 200-213)
phrasesStart(body, key) ==
    IF KeyError(key).status # 0
    THEN [resp |-> catchResponse(KeyError(key)), await |-> FALSE]
    ELSE [resp |-> NoResp, await |-> TRUE]

\* a handler's outcome: the response it sends, and whether the fallback
\* path of POST /api/phrases ran on the way
Outcome(response, fallback) == [resp |-> response, fallback |-> fallback]

\* lines 174-186
shapeEvaluation(parsedResult, aggregatedText, data) ==
    EvaluateResp(normalizedScore(parsedResult),
                 feedbackOf(parsedResult, aggregatedText),
                 correctTranslationOf(parsedResult),
                 data)

\* POST /api/evaluate after the await (lines 153-196)
evaluateFinish(result) ==
    IF result.threw THEN Outcome(catchResponse(result.error), FALSE)
    ELSE Outcome(shapeEvaluation(parseGeminiJsonPayload(result.aggregatedText),
                                 result.aggregatedText, result.data), FALSE)

\* lines 235-243
respondPhrases(shaped, data) ==
    IF shaped.phrases = <<>>
    THEN Outcome(catchResponse(Thrown(MsgNoValidPhrases, 0, FALSE, <<>>)),
                 shaped.fallback)
    ELSE Outcome(PhrasesResp(shaped.phrases, data), shaped.fallback)

\* POST /api/phrases after the await (lines 213-253)
phrasesFinish(body, result) ==
    IF result.threw THEN Outcome(catchResponse(result.error), FALSE)
    ELSE respondPhrases(shapePhrases(result.aggregatedText, targetCountOf(body)),
                        result.data)

---------------------------------------------------------------------------
(* The server: requests arrive, suspend on the upstream call, resume *)

MaxReq == 2
Requests == 1..MaxReq

NormIdle ==
    [text |-> <<>>, pc |-> "idle", tag |-> <<>>, plain |-> Undef, fenced |-> Undef]

IdleReq ==
    [body |-> Undef, fallback |-> FALSE, reply |-> NoReply, pc |-> "idle",
     endpoint |-> "none"]

\* a request arrives at POST /api/evaluate and runs to its first await
PostEvaluate(id, body) ==
    /\ req[id].pc = "idle"
    /\ LET start == evaluateStart(body, apiKey)
       IN  /\ req' = [req EXCEPT ![id] =
                        [@ EXCEPT !.pc = IF start.await THEN "awaiting" ELSE "done",
                                  !.endpoint = "evaluate", !.body = body]]
           /\ calls' = [calls EXCEPT ![id] = IF start.await THEN @ + 1 ELSE @]
           /\ resp' = [resp EXCEPT ![id] = start.resp]
    /\ UNCHANGED <<apiKey, norm>>

\* a request arrives at POST /api/phrases and runs to its first await
PostPhrases(id, body) ==
    /\ req[id].pc = "idle"
    /\ LET start == phrasesStart(body, apiKey)
       IN  /\ req' = [req EXCEPT ![id] =
                        [@ EXCEPT !.pc = IF start.await THEN "awaiting" ELSE "done",
                                  !.endpoint = "phrases", !.body = body]]
           /\ calls' = [calls EXCEPT ![id] = IF start.await THEN @ + 1 ELSE @]
           /\ resp' = [resp EXCEPT ![id] = start.resp]
    /\ UNCHANGED <<apiKey, norm>>

\* a handler that answers from the last 200 response any request of the same
\* endpoint was given, when there is one
finish_SharedLast(r, result) ==
    IF \E j \in Requests : req[j].endpoint = r.endpoint /\ resp[j].status = 200
    THEN Outcome(resp[CHOOSE j \in Requests :
                        req[j].endpoint = r.endpoint /\ resp[j].status = 200],
                 FALSE)
    ELSE IF r.endpoint = "evaluate" THEN evaluateFinish(result)
    ELSE phrasesFinish(r.body, result)

\* the response the suspended handler of a request sends for a call result
finish(r, result) ==
    IF r.endpoint = "evaluate" THEN evaluateFinish(result)
    ELSE phrasesFinish(r.body, result)

\* the suspended handler of request id resumes and ends with outcome
Resume(id, reply, outcome) ==
    /\ resp' = [resp EXCEPT ![id] = outcome.resp]
    /\ req' = [req EXCEPT ![id] =
                 [@ EXCEPT !.pc = "done", !.reply = reply,
                           !.fallback = outcome.fallback]]

\* the upstream service answers the call of request id; its handler resumes
UpstreamReply(id, reply) ==
    /\ req[id].pc = "awaiting"
    /\ Resume(id, reply, finish(req[id], callGeminiResult(reply)))
    /\ UNCHANGED <<apiKey, calls, norm>>

\* fetch() rejects: no HTTP status was received
TransportFailure(id) ==
    /\ req[id].pc = "awaiting"
    /\ resp' = [resp EXCEPT ![id] =
                  catchResponse(Thrown(MsgFetchFailed, 0, FALSE, <<>>))]
    /\ req' = [req EXCEPT ![id] = [@ EXCEPT !.pc = "done"]]
    /\ UNCHANGED <<apiKey, calls, norm>>

InitServer ==
    /\ apiKey \in BOOLEAN
    /\ req = [id \in Requests |-> IdleReq]
    /\ calls = [id \in Requests |-> 0]
    /\ resp = [id \in Requests |-> NoResp]
    /\ norm = NormIdle

---------------------------------------------------------------------------
(* Inputs of the server specification *)

\* the upstream envelope whose first candidate has the one text part
Envelope(text) ==
    Obj(K_candidates :>
        Arr(<<Obj(K_content :> Obj(K_parts :> Arr(<<Obj(K_text :> Str(text))>>)))>>))

\* an envelope whose parts are the given values
EnvelopeOfParts(parts) ==
    Obj(K_candidates :> Arr(<<Obj(K_content :> Obj(K_parts :> parts))>>))

T_Translation ==
    <<"C", "o", "m", "o", " ", "v", "a", "i", "?">>

T_Phrase ==
    <<"H", "o", "w", " ", "a", "r", "e", " ", "y", "o", "u", "?">>

T_EvalAnswer ==
    <<"{", "\"", "s", "c", "o", "r", "e", "\"", ":", " ", "7", ",", " ",
      "\"", "f", "e", "e", "d", "b", "a", "c", "k", "\"", ":", " ", "\"",
      "o", "k", "\"", "}">>

T_PhraseAnswer ==
    <<"{", "\"", "p", "h", "r", "a", "s", "e", "s", "\"", ":", " ", "[",
      "\"", "H", "i", "\"", ",", " ", "\"", "B", "y", "e", "\"", "]", "}">>

T_Quota ==
    <<"q", "u", "o", "t", "a", " ", "e", "x", "c", "e", "e", "d", "e", "d">>


\* request bodies of POST /api/evaluate (express.json() gives an object)
EvalBodies ==
    << Obj((K_prompt :> Str(T_Translation)) @@ (K_originalPhrase :> Str(T_Phrase))),
       EmptyObj,
       Obj(K_originalPhrase :> Str(T_Phrase)),
       Obj((K_prompt :> Str(<<>>)) @@ (K_originalPhrase :> Str(T_Phrase))),
       Obj((K_prompt :> Num(5, 0)) @@ (K_originalPhrase :> Str(T_Phrase))),
       Obj(K_prompt :> Str(T_Translation)),
       Obj((K_prompt :> Str(T_Translation)) @@ (K_originalPhrase :> Str(<<>>))),
       Obj((K_prompt :> Str(T_Translation)) @@ (K_originalPhrase :> Bool(TRUE))) >>

\* request bodies of POST /api/phrases
PhraseBodies == << Undef, EmptyObj, Obj(K_count :> Num(1, 0)) >>

\* upstream replies
Replies ==
    << OkReply(Envelope(T_EvalAnswer)),
       OkReply(Envelope(T_PhraseAnswer)),
       OkReply(EmptyObj),
       OkReply(Null),
       OkReply(Obj(K_candidates :> Arr(<<Null>>))),
       OkReply(EnvelopeOfParts(Null)),
       OkReply(EnvelopeOfParts(Arr(<<EmptyObj, Num(5, 0), Obj(K_text :> Null)>>))),
       OkReply(EnvelopeOfParts(Arr(<<Obj(K_text :> Str(T_PhraseAnswer)), Null>>))),
       HttpReply(200, <<"<">>, FALSE, Undef),
       HttpReply(429, T_Quota, FALSE, Undef),
       HttpReply(500, <<>>, FALSE, Undef),
       HttpReply(404, T_EvalAnswer, TRUE, Undef) >>

Next ==
    \E id \in Requests :
        \/ \E i \in 1..Len(EvalBodies) : PostEvaluate(id, EvalBodies[i])
        \/ \E i \in 1..Len(PhraseBodies) : PostPhrases(id, PhraseBodies[i])
        \/ \E i \in 1..Len(Replies) : UpstreamReply(id, Replies[i])
        \/ TransportFailure(id)

Spec == InitServer /\ [][Next]_vars

---------------------------------------------------------------------------
(* Properties of the server specification *)

NonEmptyString(v) == v.t = "str" /\ Len(v.s) > 0

\* the request carries what its endpoint requires
PassesValidation(r) ==
    \/ r.endpoint = "phrases"
    \/ /\ r.endpoint = "evaluate"
       /\ NonEmptyString(Get(r.body, K_prompt))
       /\ NonEmptyString(Get(r.body, K_originalPhrase))

Answered(id) == req[id].pc = "done"

\* the upstream service answered the call of request id with a status
\* outside 200..299
UpstreamRefused(id) ==
    /\ Answered(id)
    /\ req[id].reply.status # 0
    /\ req[id].reply.status \notin 200..299

\* C7 as stated: every answered request made exactly one upstream call,
\* whatever its body and the configuration.
C7_ExactlyOneCallAlways ==
    \A id \in Requests : Answered(id) => calls[id] = 1

\* C7, amended: a request that passes validation with the credential
\* configured makes exactly one upstream call before it is answered, no
\* request ever makes two, and a request rejected by validation or for the
\* missing credential is answered without any call.
C7_OneCallWhenAdmitted ==
    \A id \in Requests :
        /\ calls[id] \in {0, 1}
        /\ req[id].pc = "idle" => calls[id] = 0
        /\ req[id].pc = "awaiting" => calls[id] = 1
        /\ Answered(id) => (calls[id] = 1 <=> (apiKey /\ PassesValidation(req[id])))

C7_Witness ==
    \E a, b \in Requests :
        /\ Answered(a) /\ calls[a] = 1 /\ resp[a].status = 200
        /\ Answered(b) /\ calls[b] = 0 /\ resp[b].status = 400

\* C8: on either endpoint a non-success upstream status is answered 502,
\* never with the upstream status, with the error message and the upstream
\* body unchanged as details.
C8_UpstreamErrorIs502 ==
    \A id \in Requests :
        UpstreamRefused(id) =>
            resp[id] = [status |-> 502, details |-> req[id].reply.text,
                        error |-> MsgGeminiFailure]

C8_Witness ==
    \E a, b \in Requests :
        /\ req[a].endpoint = "evaluate" /\ req[b].endpoint = "phrases"
        /\ UpstreamRefused(a) /\ req[a].reply.status = 429
        /\ UpstreamRefused(b) /\ req[b].reply.status = 429
        /\ resp[a].details = T_Quota /\ resp[b].details = T_Quota

\* C9: an evaluate request whose prompt or originalPhrase is missing, empty
\* or not a string is answered 400 with an error message; without the
\* credential every request that passes validation is answered 500 with the
\* configuration error; neither makes an upstream call, and a request that
\* has not arrived yet can still arrive on either endpoint.
C9_RejectedWithoutCall ==
    \A id \in Requests :
        /\ (Answered(id) /\ ~PassesValidation(req[id])) =>
              /\ resp[id].status = 400
              /\ resp[id].error \in {MsgPromptRequired, MsgOriginalPhraseRequired}
              /\ calls[id] = 0
        /\ (Answered(id) /\ PassesValidation(req[id]) /\ ~apiKey) =>
              /\ resp[id] = [status |-> 500, error |-> MsgKeyNotConfigured]
              /\ calls[id] = 0
        /\ req[id].pc = "idle" =>
              /\ ENABLED PostPhrases(id, EmptyObj)
              /\ ENABLED PostEvaluate(id, EvalBodies[1])

C9_Witness ==
    \E a, b \in Requests :
        /\ ~apiKey
        /\ Answered(a) /\ req[a].endpoint = "evaluate" /\ resp[a].status = 400
        /\ Answered(b) /\ PassesValidation(req[b]) /\ resp[b].status = 500

---------------------------------------------------------------------------
(* POST /api/evaluate on one request, over upstream texts that carry a     *)
(* score in many forms                                                     *)

\* JSON texts of the score field
ScoreLiterals ==
    { <<"1", "3", ".", "7">>,
      <<"-", "2">>,
      <<"\"", "7", "\"">>,
      <<"7">>,
      <<"0">>,
      <<"1", "0">>,
      <<"1", "0", ".", "5">>,
      <<"9", ".", "5">>,
      <<"0", ".", "5">>,
      <<"-", "0", ".", "5">>,
      <<"0", ".", "4">>,
      <<"2", ".", "5">>,
      <<"2", ".", "6">>,
      <<"4", ".", "4", "9">>,
      <<"1", "1">>,
      <<"1", "0", "0">>,
      <<"-", "0">>,
      <<"\"", "1", "3", ".", "7", "\"">>,
      <<"\"", "-", "2", "\"">>,
      <<"\"", " ", "7", " ", "\"">>,
      <<"\"", "2", ".", "6", "\"">>,
      <<"\"", "\"">>,
      <<"\"", " ", "\"">>,
      <<"n", "u", "l", "l">>,
      <<"t", "r", "u", "e">>,
      <<"f", "a", "l", "s", "e">>,
      <<"[", "]">>,
      <<"[", "5", "]">>,
      <<"[", "\"", "7", "\"", "]">>,
      <<"[", "1", ",", "2", "]">>,
      <<"[", "n", "u", "l", "l", "]">>,
      <<"{", "}">>,
      <<"\"", "a", "b", "c", "\"">>,
      <<"\"", "7", "a", "\"">>,
      <<"\"", "I", "n", "f", "i", "n", "i", "t", "y", "\"">>,
      <<"\"", "-", "I", "n", "f", "i", "n", "i", "t", "y", "\"">>,
      <<"\"", "+", "5", "\"">>,
      <<"\"", ".", "5", "\"">>,
      <<"\"", "5", ".", "\"">>,
      <<"\"", "0", "0", "7", "\"">> }

ScoreOpen ==
    <<"{", "\"", "s", "c", "o", "r", "e", "\"", ":", " ">>

ScoreWithFeedback ==
    <<",", " ", "\"", "f", "e", "e", "d", "b", "a", "c", "k", "\"", ":",
      " ", "\"", "o", "k", "\"", "}">>

ResultPrefix ==
    <<"R", "e", "s", "u", "l", "t", ":", " ">>


\* the text T inside a fenced code block, the fences on their own lines
Wrap(T, tag) == Fence \o tag \o <<"\n">> \o T \o <<"\n">> \o Fence

\* upstream texts whose payload has the score literal x
ScoreTexts(x) ==
    { ScoreOpen \o x \o <<"}">>,
      ScoreOpen \o x \o ScoreWithFeedback,
      Wrap(ScoreOpen \o x \o <<"}">>, JsonTag),
      ResultPrefix \o ScoreOpen \o x \o <<"}">> }

\* upstream texts with no score field, or with no payload at all
NoScoreTexts ==
    { <<>>,
      <<"{", "}">>,
      <<"{", "\"", "f", "e", "e", "d", "b", "a", "c", "k", "\"", ":", " ", "\"", "o", "k", "\"", "}">>,
      <<"7">>,
      <<"\"", "7", "\"">>,
      <<"[", "7", "]">>,
      <<"n", "u", "l", "l">>,
      <<"a", "b", "c">>,
      <<"{", "\"", "s", "c", "o", "r", "e", "\"">>,
      <<"{", "\"", "S", "c", "o", "r", "e", "\"", ":", " ", "7", "}">>,
      <<"{", "\"", "s", "c", "o", "r", "e", "\"", ":", " ", "7">> }

\* upstream texts whose payload has feedback and correctTranslation fields of
\* several types
FeedbackTexts ==
    { <<"{", "\"", "f", "e", "e", "d", "b", "a", "c", "k", "\"", ":", " ", "5", "}">>,
      <<"{", "\"", "f", "e", "e", "d", "b", "a", "c", "k", "\"", ":", " ", "{", "\"", "a", "\"", ":", "1", "}", "}">>,
      <<"{", "\"", "f", "e", "e", "d", "b", "a", "c", "k", "\"", ":", " ", "[", "]", "}">>,
      <<"{", "\"", "f", "e", "e", "d", "b", "a", "c", "k", "\"", ":", " ", "n", "u", "l", "l", "}">>,
      <<"{", "\"", "f", "e", "e", "d", "b", "a", "c", "k", "\"", ":", " ", "\"", "\"", ",", " ", "\"", "c", "o", "r", "r", "e", "c", "t", "T", "r", "a", "n", "s", "l", "a", "t", "i", "o", "n", "\"", ":", " ", "\"", "O", "i", "\"", "}">>,
      <<"{", "\"", "f", "e", "e", "d", "b", "a", "c", "k", "\"", ":", " ", "\"", "o", "k", "\"", ",", " ", "\"", "c", "o", "r", "r", "e", "c", "t", "T", "r", "a", "n", "s", "l", "a", "t", "i", "o", "n", "\"", ":", " ", "\"", "O", "i", "\"", "}">>,
      <<"{", "\"", "c", "o", "r", "r", "e", "c", "t", "T", "r", "a", "n", "s", "l", "a", "t", "i", "o", "n", "\"", ":", " ", "t", "r", "u", "e", "}">>,
      <<"{", "\"", "c", "o", "r", "r", "e", "c", "t", "T", "r", "a", "n", "s", "l", "a", "t", "i", "o", "n", "\"", ":", " ", "\"", "\"", "}">> }

EvalTexts ==
    NoScoreTexts \cup FeedbackTexts \cup UNION {ScoreTexts(x) : x \in ScoreLiterals}

InitSingle ==
    /\ apiKey = TRUE
    /\ req = [id \in Requests |-> IdleReq]
    /\ calls = [id \in Requests |-> 0]
    /\ resp = [id \in Requests |-> NoResp]
    /\ norm = NormIdle

NextEvaluate ==
    \/ PostEvaluate(1, EvalBodies[1])
    \/ \E t \in EvalTexts : UpstreamReply(1, OkReply(Envelope(t)))

SpecEvaluate == InitSingle /\ [][NextEvaluate]_vars

\* the text the handler of request id extracted from its upstream reply
AggregatedText(id) == aggregateGeminiText(req[id].reply.data).text

\* the score field of the payload parsed for request id
ScoreField(id) == OptGet(parseGeminiJsonPayload(AggregatedText(id)), K_score)

EvaluateAnswered200(id) ==
    Answered(id) /\ req[id].endpoint = "evaluate" /\ resp[id].status = 200

Abs(n) == IF n < 0 THEN -n ELSE n

\* k is an integer nearest to the decimal x
NearestInteger(k, x) == 2 * Abs(x.m - k * Pow10(x.e)) <= Pow10(x.e)

\* r is the decimal x rounded to a nearest integer and clamped into [0,10]
RoundedAndClamped(r, x) ==
    /\ r.t = "num" /\ r.e = 0
    /\ \E k \in -1000..1000 :
          /\ NearestInteger(k, x)
          /\ r.m = (IF k < 0 THEN 0 ELSE IF k > 10 THEN 10 ELSE k)

\* f is a string whose content is one JSON number
NumericString(f) == f.t = "str" /\ JSONparse(f.s).ok /\ JSONparse(f.s).v.t = "num"

\* C1: the score of a 200 response of POST /api/evaluate is null or an
\* integer in [0,10]; when the score field of the parsed payload is a number
\* or a numeric string, it is that number rounded to a nearest integer and
\* clamped into [0,10].
C1_ScoreRoundedAndClamped ==
    \A id \in Requests :
        EvaluateAnswered200(id) =>
            /\ \/ resp[id].score = Null
               \/ /\ resp[id].score.t = "num" /\ resp[id].score.e = 0
                  /\ resp[id].score.m \in 0..10
            /\ ScoreField(id).t = "num" => RoundedAndClamped(resp[id].score, ScoreField(id))
            /\ NumericString(ScoreField(id)) =>
                  RoundedAndClamped(resp[id].score, JSONparse(ScoreField(id).s).v)

C1_Witness ==
    /\ EvaluateAnswered200(1)
    /\ ScoreField(1) = Num(137, 1)
    /\ resp[1].score = Num(10, 0)

\* the score field holds no number: it is missing, null, a boolean, an
\* array, an object, or a string without any digit
NoNumericScore(f) ==
    \/ f.t \in {"undefined", "null", "bool", "arr", "obj"}
    \/ f.t = "str" /\ \A i \in 1..Len(f.s) : f.s[i] \notin DigitSet

\* C2: the score of a 200 response of POST /api/evaluate is null whenever
\* the upstream text carries no parseable numeric score (no payload, no
\* score field, or a score field that is JSON null, an empty string, a
\* boolean, an array or non-numeric text).
C2_NullWhenNoNumericScore ==
    \A id \in Requests :
        (EvaluateAnswered200(id) /\ NoNumericScore(ScoreField(id))) =>
            resp[id].score = Null

\* C4: aggregateGeminiText returns a string and never throws, whatever the
\* shape of the upstream envelope (candidates, the first candidate, content
\* or parts missing or null, parts whose elements have no text field or are
\* null or not objects).
C4_ExtractorNeverThrows ==
    \A id \in Requests :
        (Answered(id) /\ ResponseOk(req[id].reply) /\ req[id].reply.json) =>
            ~aggregateGeminiText(req[id].reply.data).threw

---------------------------------------------------------------------------
(* POST /api/phrases on one request, over request counts and upstream      *)
(* phrase lists                                                            *)

\* most items of an upstream phrase list
MaxPhrases == 3

\* JSON texts of the items of a phrase list
PhraseItems ==
    { <<"\"", "H", "i", "\"">>,
      <<"\"", "h", "i", "\"">>,
      <<"\"", "B", "y", "e", "\"">>,
      <<"\"", " ", "B", "y", "e", " ", "\"">>,
      <<"\"", "\"">>,
      <<"5">> }

\* the comma-separated lists of at most n items
RECURSIVE ListBodies(_)
ListBodies(n) ==
    IF n = 0 THEN {<<>>}
    ELSE ListBodies(n - 1) \cup
         { IF b = <<>> THEN it ELSE b \o <<",", " ">> \o it :
             b \in ListBodies(n - 1), it \in PhraseItems }

PhrasesOpen ==
    <<"{", "\"", "p", "h", "r", "a", "s", "e", "s", "\"", ":", " ", "[">>


\* upstream texts that are no JSON phrase list: numbered and bulleted lines,
\* markers only, an empty list, a phrases field that is no array
LineTexts ==
    { <<>>,
      <<"1", ".", " ", "H", "i", "\n", "2", ".", " ", "h", "i", "\n", "-", " ", "B", "y", "e">>,
      <<"H", "i", "\r", "\n", "B", "y", "e", "\n", "\n", "H", "I", "\n", "O", "k">>,
      <<"-", " ", "\n", "*">>,
      <<"1", "2", "3">>,
      <<"{", "\"", "p", "h", "r", "a", "s", "e", "s", "\"", ":", " ", "[", "]", "}">>,
      <<"{", "\"", "p", "h", "r", "a", "s", "e", "s", "\"", ":", " ", "\"", "H", "i", "\"", "}">>,
      <<"*", " ", "H", "i", "\n", "*", " ", "B", "y", "e", "\n", "*", " ", "O", "k">>,
      <<"n", "u", "l", "l">>,
      <<"[", "[", "]", "]">> }

PhraseTexts ==
    LineTexts
    \cup { <<"[">> \o b \o <<"]">> : b \in ListBodies(MaxPhrases) }
    \cup { PhrasesOpen \o b \o <<"]", "}">> : b \in ListBodies(MaxPhrases) }

\* request bodies of POST /api/phrases with their count
CountBodies ==
    << Undef, EmptyObj,
       Obj(K_count :> Null),
       Obj(K_count :> Num(1, 0)), Obj(K_count :> Num(2, 0)),
       Obj(K_count :> Num(3, 0)), Obj(K_count :> Num(0, 0)),
       Obj(K_count :> Num(-5, 0)), Obj(K_count :> Num(25, 1)),
       Obj(K_count :> Num(14, 1)), Obj(K_count :> Num(250, 0)),
       Obj(K_count :> Str(<<"2">>)), Obj(K_count :> Str(<<"a", "b">>)),
       Obj(K_count :> Bool(TRUE)), Obj(K_count :> Str(<<>>)) >>

NextPhrases ==
    \/ \E i \in 1..Len(CountBodies) : PostPhrases(1, CountBodies[i])
    \/ \E t \in PhraseTexts : UpstreamReply(1, OkReply(Envelope(t)))

SpecPhrases == InitSingle /\ [][NextPhrases]_vars

PhrasesAnswered200(id) ==
    Answered(id) /\ req[id].endpoint = "phrases" /\ resp[id].status = 200

\* the handler of request id got as far as shaping a phrase list
PhrasesShaped(id) ==
    /\ Answered(id) /\ req[id].endpoint = "phrases"
    /\ ResponseOk(req[id].reply) /\ req[id].reply.json
    /\ ~aggregateGeminiText(req[id].reply.data).threw

\* the items of the primary path, and the lines of the fallback path
PrimaryCandidates(id) == rawListOf(parseGeminiJsonPayload(AggregatedText(id)))
FallbackCandidates(id) == fallbackLines(AggregatedText(id)).a

\* the candidate sequence the response of request id was taken from
Candidates(id) ==
    IF req[id].fallback THEN FallbackCandidates(id) ELSE PrimaryCandidates(id)

\* item i is a string with something left after trimming
Usable(cands, i) == cands[i].t = "str" /\ trim(cands[i].s) # <<>>

SameIgnoringCase(a, b) ==
    Len(a) = Len(b) /\ \A i \in 1..Len(a) : LowerChar(a[i]) = LowerChar(b[i])

\* item i is usable and no earlier usable item equals it ignoring case
Kept(cands, i) ==
    /\ Usable(cands, i)
    /\ \A j \in 1..(i - 1) :
          Usable(cands, j) => ~SameIgnoringCase(trim(cands[j].s), trim(cands[i].s))

KeptIndexes(cands) == {i \in 1..Len(cands) : Kept(cands, i)}

\* the k-th kept index
KthKept(cands, k) ==
    CHOOSE i \in KeptIndexes(cands) :
        Cardinality({j \in KeptIndexes(cands) : j <= i}) = k

\* the first n kept items, trimmed, in order
FirstKept(cands, n) ==
    [k \in 1..(IF Cardinality(KeptIndexes(cands)) < n
               THEN Cardinality(KeptIndexes(cands)) ELSE n)
        |-> trim(cands[KthKept(cands, k)].s)]

\* x rounded to a nearest integer and clamped into [1,200]
ClampedCounts(x) ==
    { IF n < 1 THEN 1 ELSE IF n > 200 THEN 200 ELSE n :
        n \in {m \in -1000..1000 : NearestInteger(m, x)} }

\* count is a finite number, or a string that writes one
FiniteNumber(count) ==
    \/ count.t = "num"
    \/ count.t = "str" /\ trim(count.s) # <<>> /\ StringToNumber(count.s).t = "num"

\* the target count as C3 states it: the count rounded and clamped, 100
\* when the count is absent or is not a finite number
StatedTargets(count) ==
    IF FiniteNumber(count) THEN ClampedCounts(ToNumber(count)) ELSE {100}

\* the target count of Number(count): 100 when the count is absent or null
\* or Number(count) is not finite
CoercedTargets(count) ==
    IF IsNullish(count) \/ ToNumber(count).t # "num" THEN {100}
    ELSE ClampedCounts(ToNumber(count))

NoTwoEqualIgnoringCase(phrases) ==
    \A i, j \in 1..Len(phrases) :
        i # j => ~SameIgnoringCase(phrases[i], phrases[j])

\* C3: the phrases of a 200 response are the first targetCount kept
\* candidates (strings, trimmed, non-empty, first of those equal ignoring
\* case), targetCount being the count rounded and clamped into [1,200], 100
\* when the count is absent or not a finite number.
C3_PhrasesAsStated ==
    \A id \in Requests :
        PhrasesAnswered200(id) =>
            \E k \in StatedTargets(OptGet(req[id].body, K_count)) :
                /\ resp[id].phrases = FirstKept(Candidates(id), k)

\* C3 with the target count the handler computes from Number(count), which
\* takes true as 1 and the empty string as 0: the phrases are the first
\* targetCount kept candidates, at most targetCount of them, no two equal
\* ignoring case.
C3_PhrasesOfCoercedCount ==
    \A id \in Requests :
        PhrasesAnswered200(id) =>
            \E k \in CoercedTargets(OptGet(req[id].body, K_count)) :
                /\ resp[id].phrases = FirstKept(Candidates(id), k)
                /\ Len(resp[id].phrases) <= k
                /\ NoTwoEqualIgnoringCase(resp[id].phrases)

C3_Witness ==
    /\ PhrasesAnswered200(1)
    /\ OptGet(req[1].body, K_count) = Num(2, 0)
    /\ Cardinality(KeptIndexes(Candidates(1))) = 3
    /\ Len(Candidates(1)) > 3
    /\ Len(resp[1].phrases) = 2

NoneUsable(cands) == \A i \in 1..Len(cands) : ~Usable(cands, i)

\* C10: the fallback path runs only when the primary path yields no usable
\* phrase at all; when neither path yields one the response is 500 with the
\* descriptive message; a 200 response carries at least one phrase.
C10_FallbackOnlyOnZero ==
    \A id \in Requests :
        PhrasesShaped(id) =>
            /\ req[id].fallback => NoneUsable(PrimaryCandidates(id))
            /\ (NoneUsable(PrimaryCandidates(id)) /\ NoneUsable(FallbackCandidates(id))) =>
                  resp[id] = [status |-> 500, error |-> MsgNoValidPhrases]
            /\ resp[id].status = 200 => Len(resp[id].phrases) >= 1

C10_Witness ==
    /\ PhrasesShaped(1)
    /\ req[1].fallback
    /\ AggregatedText(1) # <<>>
    /\ resp[1] = [status |-> 500, error |-> MsgNoValidPhrases]

---------------------------------------------------------------------------
(* The Payload Normalizer on its own, over texts built from pieces          *)

\* most pieces of a text
MaxPieces == 4

\* the pieces: the fence, the tag, a line break, an object, an array, a
\* scalar, prose, a stray closer
Pieces ==
    { Fence, JsonTag, <<"\n">>, <<"{", "\"", "a", "\"", ":", "1", "}">>,
      <<"[", "1", "]">>, <<"1">>, <<"x">>, <<"]">> }

RECURSIVE TextsOf(_)
TextsOf(n) ==
    IF n = 0 THEN {<<>>}
    ELSE TextsOf(n - 1) \cup {t \o p : t \in TextsOf(n - 1), p \in Pieces}

NormTexts == TextsOf(MaxPieces)

\* parseGeminiJsonPayload applied to the text alone and to the text wrapped
\* in a fenced block whose opening fence carries the tag
Normalize(tag) ==
    /\ norm.pc = "ready"
    /\ norm' = [norm EXCEPT !.pc = "done",
                            !.tag = tag,
                            !.plain = parseGeminiJsonPayload(norm.text),
                            !.fenced = parseGeminiJsonPayload(Wrap(norm.text, tag))]
    /\ UNCHANGED <<apiKey, req, calls, resp>>

InitNormalize ==
    /\ apiKey = TRUE
    /\ req = [id \in Requests |-> IdleReq]
    /\ calls = [id \in Requests |-> 0]
    /\ resp = [id \in Requests |-> NoResp]
    /\ \E t \in NormTexts : norm = [NormIdle EXCEPT !.pc = "ready", !.text = t]

NextNormalize == \E tag \in {<<>>, JsonTag} : Normalize(tag)

SpecNormalize == InitNormalize /\ [][NextNormalize]_vars

\* C5 as stated: for every text, the normalizer returns for the fenced text
\* what it returns for the text alone.
C5_FencedEqualsPlain ==
    norm.pc = "done" => norm.fenced = norm.plain

\* C5, amended: the normalizer returns for the fenced text what it returns
\* for the text alone, for every text whose trimmed form does not itself
\* start with a fence and for every text it normalizes to an object or array.
C5_FencedEqualsPlainUnfenced ==
    (/\ norm.pc = "done"
     /\ \/ ~startsWith(trim(norm.text), Fence)
        \/ norm.plain.t \in {"obj", "arr"})
        => norm.fenced = norm.plain

C5_Witness ==
    /\ norm.pc = "done"
    /\ norm.tag = JsonTag
    /\ ~startsWith(trim(norm.text), Fence)
    /\ norm.plain.t = "num"
    /\ norm.fenced = norm.plain

\* parsing the whole fence-stripped text of the input fails
WholeParseFails == ~JSONparse(Sanitize(norm.text)).ok

\* s[p..q] is a valid JSON object or array
ValidBlock(s, p, q) ==
    /\ s[p] \in {"{", "["}
    /\ s[q] = Closer(s[p])
    /\ JSONparse(SubSeq(s, p, q)).ok

HasValidBlock(s) == \E p \in 1..Len(s) : \E q \in p + 1..Len(s) : ValidBlock(s, p, q)

\* s[p..q] is the block the search takes: from the leftmost opener that has
\* a later closer of its kind to the last such closer
GreedyBlock(s, p, q) ==
    /\ s[p] \in {"{", "["}
    /\ s[q] = Closer(s[p])
    /\ \A r \in q + 1..Len(s) : s[r] # s[q]
    /\ \A o \in 1..(p - 1) :
          s[o] \in {"{", "["} => \A r \in o + 1..Len(s) : s[r] # Closer(s[o])

\* C6 as stated: when the whole parse fails and the text holds a valid JSON
\* object or array, the normalizer returns the parse of such a substring,
\* not null.
C6_ValidSubstringParsed ==
    (norm.pc = "done" /\ WholeParseFails /\ HasValidBlock(Sanitize(norm.text)))
        => /\ norm.plain # Null
           /\ \E p \in 1..Len(Sanitize(norm.text)) :
                 \E q \in p + 1..Len(Sanitize(norm.text)) :
                    /\ ValidBlock(Sanitize(norm.text), p, q)
                    /\ norm.plain = JSONparse(SubSeq(Sanitize(norm.text), p, q)).v

\* C6, amended: when the whole parse fails, the normalizer returns the parse
\* of the greedy block (leftmost opener with a later closer of its kind, to
\* the last such closer) when that block is valid JSON, and null otherwise,
\* whatever valid blocks lie inside it.
C6_GreedyBlockParsed ==
    (norm.pc = "done" /\ norm.text # <<>> /\ WholeParseFails)
        => /\ \A p \in 1..Len(Sanitize(norm.text)) :
                 \A q \in p + 1..Len(Sanitize(norm.text)) :
                    GreedyBlock(Sanitize(norm.text), p, q) =>
                        norm.plain =
                            (IF JSONparse(SubSeq(Sanitize(norm.text), p, q)).ok
                             THEN JSONparse(SubSeq(Sanitize(norm.text), p, q)).v
                             ELSE Null)
           /\ (\A p \in 1..Len(Sanitize(norm.text)) :
                 \A q \in p + 1..Len(Sanitize(norm.text)) :
                    ~GreedyBlock(Sanitize(norm.text), p, q))
                 => norm.plain = Null

C6_Witness ==
    /\ norm.pc = "done"
    /\ WholeParseFails
    /\ norm.plain = Arr(<<Num(1, 0)>>)
    /\ Sanitize(norm.text)[1] = "x"

---------------------------------------------------------------------------
(* Evaluation shaping: feedback and correctTranslation                     *)

\* the payload parsed for request id
ParsedResult(id) == parseGeminiJsonPayload(AggregatedText(id))

\* the handler of request id got as far as shaping an evaluation
EvaluateShaped(id) ==
    /\ Answered(id) /\ req[id].endpoint = "evaluate"
    /\ ResponseOk(req[id].reply) /\ req[id].reply.json
    /\ ~aggregateGeminiText(req[id].reply.data).threw

\* the field is present and non-empty: anything but a missing field, null
\* and the empty text
PresentNonEmpty(f) == ~IsNullish(f) /\ f # Str(<<>>)

\* feedback as C11 states it: the parsed field when present and non-empty,
\* else the extracted text, else the placeholder
StatedFeedback(id) ==
    IF PresentNonEmpty(OptGet(ParsedResult(id), K_feedback))
    THEN OptGet(ParsedResult(id), K_feedback)
    ELSE IF AggregatedText(id) # <<>> THEN Str(AggregatedText(id))
    ELSE Str(NoResponseReceived)

\* correctTranslation as C11 states it: the parsed field when present (an
\* empty text counting as absent), else the placeholder
StatedTranslation(id) ==
    IF PresentNonEmpty(OptGet(ParsedResult(id), K_correctTranslation))
    THEN OptGet(ParsedResult(id), K_correctTranslation)
    ELSE Str(TranslationNotProvided)

\* C11: evaluation shaping never fails, and the 200 response of POST
\* /api/evaluate has a feedback that is a non-empty text and a
\* correctTranslation that is a text: the parsed fields when present, else
\* the extracted text (feedback only), else the placeholders.
C11_FeedbackAndTranslationAreTexts ==
    \A id \in Requests :
        EvaluateShaped(id) =>
            /\ resp[id].status = 200
            /\ resp[id].feedback.t = "str" /\ resp[id].feedback.s # <<>>
            /\ resp[id].correctTranslation.t = "str"
            /\ resp[id].feedback = StatedFeedback(id)
            /\ resp[id].correctTranslation = StatedTranslation(id)

\* both fields of the payload are texts or are missing
FieldsAreTexts(id) ==
    /\ OptGet(ParsedResult(id), K_feedback).t \in {"str", "undefined", "null"}
    /\ OptGet(ParsedResult(id), K_correctTranslation).t \in {"str", "undefined", "null"}

\* C11 for payloads whose feedback and correctTranslation are texts or are
\* missing: shaping answers 200 with the texts C11 states.
C11_TextsWhenFieldsAreTexts ==
    \A id \in Requests :
        EvaluateShaped(id) =>
            /\ resp[id].status = 200
            /\ FieldsAreTexts(id) =>
                  /\ resp[id].feedback.t = "str" /\ resp[id].feedback.s # <<>>
                  /\ resp[id].correctTranslation.t = "str"
                  /\ resp[id].feedback = StatedFeedback(id)
                  /\ resp[id].correctTranslation = StatedTranslation(id)

---------------------------------------------------------------------------
(* Transport failure, and requests in flight at once                       *)

\* the upstream call of request id was rejected before any HTTP status
TransportFailed(id) ==
    Answered(id) /\ calls[id] = 1 /\ req[id].reply = NoReply

\* C12: a transport failure of the upstream call is reported the same way as
\* a non-success status, as an upstream error (502) carrying details, on
\* both endpoints.
C12_TransportFailureAsUpstreamError ==
    \A id \in Requests :
        TransportFailed(id) =>
            resp[id].status = 502 /\ "details" \in DOMAIN resp[id]

\* the response a request is given, from its own endpoint, body and upstream
\* outcome and the configured credential
ResponseAfterCall(r) ==
    IF r.reply = NoReply THEN catchResponse(Thrown(MsgFetchFailed, 0, FALSE, <<>>))
    ELSE IF r.endpoint = "evaluate" THEN evaluateFinish(callGeminiResult(r.reply)).resp
    ELSE phrasesFinish(r.body, callGeminiResult(r.reply)).resp

ResponseOfStart(r, start) ==
    IF start.await THEN ResponseAfterCall(r) ELSE start.resp

ResponseFor(r, key) ==
    ResponseOfStart(r, IF r.endpoint = "evaluate" THEN evaluateStart(r.body, key)
                       ELSE phrasesStart(r.body, key))

\* the upstream replies with a status outside 200..299
Refusals == {i \in 1..Len(Replies) : ~ResponseOk(Replies[i])}

\* whatever the other requests are doing, an idle request can arrive at
\* either endpoint and a request waiting for its upstream call can be given
\* a reply, and can be given a transport failure
NeverBlocked(id) ==
    /\ req[id].pc = "idle" =>
          /\ ENABLED (\E i \in 1..Len(EvalBodies) : PostEvaluate(id, EvalBodies[i]))
          /\ ENABLED (\E i \in 1..Len(PhraseBodies) : PostPhrases(id, PhraseBodies[i]))
    /\ req[id].pc = "awaiting" =>
          /\ ENABLED (\E i \in Refusals : UpstreamReply(id, Replies[i]))
          /\ ENABLED TransportFailure(id)

\* C13: in every interleaving of the requests in flight, the response of an
\* answered request is the one its own body and its own upstream reply
\* determine, a request not yet answered has no response, and no request is
\* kept from arriving or from being answered by the state of another one.
C13_RequestsAreIsolated ==
    \A id \in Requests :
        /\ Answered(id) => resp[id] = ResponseFor(req[id], apiKey)
        /\ ~Answered(id) => resp[id] = NoResp
        /\ NeverBlocked(id)

\* one request still waits for its upstream call while requests that arrived
\* after it and before it were answered, with a reply of their own
C13_Witness ==
    \E a, b \in Requests :
        /\ a # b
        /\ req[a].pc = "awaiting" /\ req[a].endpoint = "phrases"
        /\ Answered(b) /\ req[b].endpoint = "evaluate"
        /\ resp[b].status = 200 /\ resp[b].score = Num(7, 0)

============================================================================
